---- MODULE Spec2Model ----
(***************************************************************************)
(* FarmSight backend: the crop-stress classifier, the NDVI trend and       *)
(* forecast estimator (AIStressDetector) and the alert orchestrator        *)
(* (AlertService) with the HTTP handlers that drive them.                  *)
(*                                                                         *)
(* Numbers.  NDVI values and confidences are kept in hundredths (0.35 is   *)
(* 35, a confidence of 0.7 is 70).  A regression slope is the exact        *)
(* fraction [num, den] (den > 0) of hundredths of NDVI per sample index.    *)
(* The code computes the slope in double arithmetic: a slope that is        *)
(* exactly -0.05 comes out as a double just below or not below the literal  *)
(* -0.05, depending on the rounding of the sums (fpBelow).  Every other     *)
(* slope over hundredths is far enough from -0.05 for the comparison to     *)
(* agree with the exact one.  Time is in hours.                             *)
(***************************************************************************)
EXTENDS Integers, Sequences, FiniteSets, TLC

(***************************************************************************)
(* Bounds of the model.                                                    *)
(***************************************************************************)
MaxShort == 3
MaxLong == 6
MaxCalls == 2
MaxTime == 24
HalfDay == 12
MaxDays == 3

(***************************************************************************)
(* State                                                                   *)
(***************************************************************************)
VARIABLES
  pin, pout, pstep,   \* input, output and position of a pure-function run
  horizon, fnoise,    \* days and per-day random variation of a forecast run
  preply,             \* what the LLM call does in a detector run
  fout,               \* the forecast a forecast run returned
  fpBelow,            \* a slope of exactly -0.05 is computed below -0.05
  now,                \* the clock, in hours
  farmDoc,            \* Farm collection: "none", "active" or "inactive" per id
  ownerDoc,           \* User document of the farm's owner, per farm
  llmKey,             \* HUAWEI_LLM_API_KEY is set
  jitter,             \* the variation the random source adds to a forecast
  ndviStore,          \* NDVIData collection: the documents of each farm
  alertRecords,       \* Alert collection
  stressCache,        \* the stressCache Map of the alerts router's service
  outbox,             \* notifications handed to the SMS gateway
  lastAlerted,        \* per farm, the last alert whose dispatch succeeded
  calls,              \* requests handled so far (Tick and bulk start apart)
  bulk,               \* the analyzeAllFarms call in progress, if any
  videoProgress,      \* VideoProgress collection
  last                \* what the last request did and answered

vars == <<pin, pout, pstep, horizon, fnoise, fout, preply, fpBelow, now, farmDoc, ownerDoc, llmKey, jitter, ndviStore,
          alertRecords, stressCache, outbox, lastAlerted, calls, bulk,
          videoProgress, last>>

pureVars == <<pin, pout, pstep, horizon, fnoise, fout, preply>>
serviceVars == <<now, farmDoc, ownerDoc, llmKey, jitter, ndviStore, alertRecords,
                 stressCache, outbox, lastAlerted, calls, bulk, videoProgress,
                 last>>

(***************************************************************************)
(* AIStressDetector                                                        *)
(***************************************************************************)

\* the levels array of upgradeStressLevel, in severity order
levels == <<"healthy", "low", "moderate", "high", "severe">>

\* levels.indexOf(level), 0-based, -1 when the level is not in the array
indexOf(level) ==
  IF \E i \in 1..Len(levels) : levels[i] = level
  THEN (CHOOSE i \in 1..Len(levels) : levels[i] = level) - 1
  ELSE -1

Min(a, b) == IF a < b THEN a ELSE b
Max(a, b) == IF a > b THEN a ELSE b

upgradeStressLevelSkip(currentLevel) ==
  levels[Min(indexOf(currentLevel) + 2, Len(levels) - 1) + 1]

\* levels[Math.min(currentIndex + 1, levels.length - 1)]
upgradeStressLevel(currentLevel) ==
  levels[Min(indexOf(currentLevel) + 1, Len(levels) - 1) + 1]

\* points.reduce((sum, p) => sum + p, 0)
SumSeq(s) ==
  LET acc[i \in 0..Len(s)] == IF i = 0 THEN 0 ELSE acc[i - 1] + s[i]
  IN  acc[Len(s)]

\* slope = (n*sumXY - sumX*sumY) / (n*sumX2 - sumX*sumX) over the points
\* {x: i, y: ys[i]} with the 0-based array index i
calculateLinearRegression(ys) ==
  LET n == Len(ys)
      sumX == SumSeq([i \in 1..n |-> i - 1])
      sumY == SumSeq(ys)
      sumXY == SumSeq([i \in 1..n |-> (i - 1) * ys[i]])
      sumX2 == SumSeq([i \in 1..n |-> (i - 1) * (i - 1)])
  IN  [num |-> n * sumXY - sumX * sumY, den |-> n * sumX2 - sumX * sumX]

ZeroSlope == [num |-> 0, den |-> 1]

\* ndviData.slice(-5): the last five elements of the array, in array order
LastFive(s) == IF Len(s) <= 5 THEN s ELSE SubSeq(s, Len(s) - 4, Len(s))

\* the first five elements of the array
FirstFive(s) == IF Len(s) <= 5 THEN s ELSE SubSeq(s, 1, 5)

calculateNDVITrendUnguarded(ndvi) == calculateLinearRegression(LastFive(ndvi))

\* ndvi is the sequence of the ndvi fields of ndviData, in array order
calculateNDVITrend(ndvi) ==
  IF Len(ndvi) < 2 THEN ZeroSlope
  ELSE calculateLinearRegression(LastFive(ndvi))

\* ndviTrend < -0.05, on the double the regression computed
Declining(slope) ==
  \/ slope.num < (0 - 5) * slope.den
  \/ slope.num = (0 - 5) * slope.den /\ fpBelow

\* ndviData[ndviData.length - 1]?.ndvi || 0
latestNDVI(ndvi) == IF Len(ndvi) = 0 THEN 0 ELSE ndvi[Len(ndvi)]

baseClassificationSwapped(v) ==
  IF v < 20 THEN [stressLevel |-> "high", confidence |-> 90]
  ELSE IF v < 30 THEN [stressLevel |-> "severe", confidence |-> 80]
  ELSE IF v < 40 THEN [stressLevel |-> "moderate", confidence |-> 70]
  ELSE [stressLevel |-> "healthy", confidence |-> 80]

baseClassificationModerateTo35(v) ==
  IF v < 20 THEN [stressLevel |-> "severe", confidence |-> 90]
  ELSE IF v < 30 THEN [stressLevel |-> "high", confidence |-> 80]
  ELSE IF v < 35 THEN [stressLevel |-> "moderate", confidence |-> 70]
  ELSE [stressLevel |-> "healthy", confidence |-> 80]

\* the threshold ladder of analyzeWithRules: level and confidence per branch
baseClassification(v) ==
  IF v < 20 THEN [stressLevel |-> "severe", confidence |-> 90]
  ELSE IF v < 30 THEN [stressLevel |-> "high", confidence |-> 80]
  ELSE IF v < 40 THEN [stressLevel |-> "moderate", confidence |-> 70]
  ELSE [stressLevel |-> "healthy", confidence |-> 80]

analyzeWithRules(ndvi) ==
  LET latest == latestNDVI(ndvi)
      ndviTrend == calculateNDVITrend(ndvi)
      base == baseClassification(latest)
  IN  [stressLevel |-> IF Declining(ndviTrend)
                       THEN upgradeStressLevel(base.stressLevel)
                       ELSE base.stressLevel,
       confidence |-> base.confidence,
       current |-> latest,
       trend |-> ndviTrend,
       aiModel |-> "rule-based-fallback"]

\* generateMockLLMResponse: the ladder used when the LLM reply has none of
\* the expected shapes
generateMockLLMResponse(latest) ==
  IF latest < 20 THEN [stressLevel |-> "severe", confidence |-> 95]
  ELSE IF latest < 35 THEN [stressLevel |-> "high", confidence |-> 85]
  ELSE IF latest < 50 THEN [stressLevel |-> "moderate", confidence |-> 75]
  ELSE IF latest < 65 THEN [stressLevel |-> "low", confidence |-> 80]
  ELSE [stressLevel |-> "healthy", confidence |-> 90]

\* What the LLM call can do: fail (error or timeout), answer in an unknown
\* shape (the mock ladder is used), or answer with a parsed object whose
\* stressLevel / confidence may be absent ("absent", 0).
LLMLevels == {"severe", "absent"}
LLMConfidences == {0, 60}
LLMReplies ==
  {[kind |-> "error", stressLevel |-> "absent", confidence |-> 0],
   [kind |-> "format", stressLevel |-> "absent", confidence |-> 0]}
  \cup [kind : {"reply"}, stressLevel : LLMLevels, confidence : LLMConfidences]

NoReply == [kind |-> "nokey", stressLevel |-> "absent", confidence |-> 0]

NullAnalysis ==
  [stressLevel |-> "null", confidence |-> 0, current |-> 0,
   trend |-> ZeroSlope, aiModel |-> "null"]

\* analyzeWithHuaweiLLM: null when the call fails, otherwise
\* stressLevel = aiAnalysis.stressLevel || 'unknown',
\* confidence = aiAnalysis.confidence || 0.7
analyzeWithHuaweiLLM(ndvi, reply) ==
  LET latest == latestNDVI(ndvi)
      ai == IF reply.kind = "format" THEN generateMockLLMResponse(latest)
            ELSE [stressLevel |-> reply.stressLevel,
                  confidence |-> reply.confidence]
  IN  IF reply.kind = "error" THEN NullAnalysis
      ELSE [stressLevel |-> IF ai.stressLevel = "absent" THEN "unknown"
                            ELSE ai.stressLevel,
            confidence |-> IF ai.confidence = 0 THEN 70 ELSE ai.confidence,
            current |-> latest,
            trend |-> calculateNDVITrend(ndvi),
            aiModel |-> "huawei-llm"]

detectCropStressNoFallback(ndvi, reply) ==
  IF reply.kind # "nokey" THEN analyzeWithHuaweiLLM(ndvi, reply)
  ELSE analyzeWithRules(ndvi)

\* detectCropStress: the LLM first when an API key is configured, the rules
\* when there is no key or the LLM path returned null
detectCropStress(ndvi, reply) ==
  LET aiResult == analyzeWithHuaweiLLM(ndvi, reply)
  IN  IF reply.kind # "nokey" /\ aiResult # NullAnalysis THEN aiResult
      ELSE analyzeWithRules(ndvi)

\* the ladder of generateStressForecast
forecastLevel(v) ==
  IF v < 20 THEN "severe"
  ELSE IF v < 30 THEN "high"
  ELSE IF v < 40 THEN "moderate"
  ELSE IF v < 50 THEN "low"
  ELSE "healthy"

\* The fraction n/d (d > 0) rounded to the nearest integer, halves down.
\* The forecast adds a random variation in [-0.025, 0.025) to the projected
\* value; the model keeps forecast values on the hundredths grid by taking
\* the grid point nearest to the projection and moving it by a whole number
\* of hundredths from Noise, each of which some random draw produces.
RoundHalfDown(n, d) == 0 - ((d - 2 * n) \div (2 * d))

Noise == {0 - 2, 0, 2}

Clamp01NoFloor(x) == Min(100, x)

\* Math.max(0, Math.min(1, x))
Clamp01(x) == Max(0, Min(100, x))

TooFewForForecastOffByOne(ndvi) == Len(ndvi) < 2

\* ndviData.length < 3 in generateStressForecast
TooFewForForecast(ndvi) == Len(ndvi) < 3

forecastDaysExclusive(days) == 1..(days - 1)

\* the values of i in for (let i = 1; i <= days; i++)
forecastDays(days) == 1..days

dayConfidenceFloor70(i, days) ==
  [num |-> Max(70 * days, 90 * days - 40 * i), den |-> days]

\* Math.max(0.5, 0.9 - (i / days) * 0.4) as the fraction num / den of
\* hundredths
dayConfidence(i, days) ==
  [num |-> Max(50 * days, 90 * days - 40 * i), den |-> days]

\* generateStressForecast(ndviData, days); noise[i] is the random variation
\* of day i; day i stands for the date i days after today.
generateStressForecast(ndvi, days, noise) ==
  IF TooFewForForecast(ndvi)
  THEN [forecast |-> <<>>, method |-> "insufficient_data"]
  ELSE
    LET trend == calculateNDVITrend(ndvi)
        lastNDVI == ndvi[Len(ndvi)]
        point(i) ==
          LET finalNDVI ==
                Clamp01(RoundHalfDown(lastNDVI * trend.den + trend.num * i,
                                      trend.den) + noise[i])
          IN  [day |-> i,
               predictedNDVI |-> finalNDVI,
               stressLevel |-> forecastLevel(finalNDVI),
               confidence |-> dayConfidence(i, days)]
    IN  [forecast |-> [i \in forecastDays(days) |-> point(i)],
         method |-> "linear_regression"]

NoForecast == [forecast |-> <<>>, method |-> "none"]

NoAnalysis ==
  [stressLevel |-> "none", confidence |-> 0, current |-> 0,
   trend |-> ZeroSlope, aiModel |-> "none"]

(***************************************************************************)
(* AlertService                                                            *)
(***************************************************************************)
FarmIds == {"f1", "f2"}

\* this.alertCooldown = 24 * 60 * 60 * 1000 ms, in hours
alertCooldown == 24

\* NDVIData.find(...).limit(30)
QueryLimit == 30

\* generateStressForecast(ndviData, 14) in analyzeFarmAndAlert
AlertForecastDays == 14

\* Keys of the stressCache Map.  A Map compares keys by SameValueZero: a
\* string equals the same string, an object only itself.  farmId from a
\* request path is a string; farm._id of a loaded document is an ObjectId
\* instance created by that query.  inst names the instance: a positive
\* number for the _id of a document loaded by Farm.findById in
\* analyzeFarmAndAlert, 0 for an _id that came from another query result.
StringKey(f) == [type |-> "string", farm |-> f, inst |-> 0]
ObjectIdKey(f, n) == [type |-> "ObjectId", farm |-> f, inst |-> n]

SameValueZeroById(a, b) == a.farm = b.farm

SameValueZero(a, b) == a = b

NoEntry ==
  [present |-> FALSE, key |-> StringKey("none"), timestamp |-> 0,
   stressLevel |-> "none"]

\* this.stressCache.get(key)
stressCacheGet(cache, key) ==
  IF \E i \in 1..Len(cache) : SameValueZero(cache[i].key, key)
  THEN cache[CHOOSE i \in 1..Len(cache) : SameValueZero(cache[i].key, key)]
  ELSE NoEntry

\* this.stressCache.set(key, value)
stressCacheSet(cache, key, value) ==
  IF \E i \in 1..Len(cache) : SameValueZero(cache[i].key, key)
  THEN [i \in 1..Len(cache) |->
          IF SameValueZero(cache[i].key, key) THEN value ELSE cache[i]]
  ELSE Append(cache, value)

shouldSendAlertNoLevelCheck(cache, farmId, analysis, t) ==
  LET lastAlert == stressCacheGet(cache, farmId)
  IN  IF lastAlert.present /\ (t - lastAlert.timestamp) < alertCooldown
      THEN FALSE
      ELSE IF analysis.confidence < 70 THEN FALSE
      ELSE TRUE

shouldSendAlert(cache, farmId, analysis, t) ==
  LET lastAlert == stressCacheGet(cache, farmId)
  IN  IF analysis.stressLevel = "healthy" \/ analysis.stressLevel = "low"
      THEN FALSE
      ELSE IF lastAlert.present /\ (t - lastAlert.timestamp) < alertCooldown
      THEN FALSE
      ELSE IF analysis.confidence < 70 THEN FALSE
      ELSE TRUE

getUrgencyLevel(stressLevel) ==
  CASE stressLevel = "severe" -> "urgent"
    [] stressLevel = "high" -> "high"
    [] stressLevel = "moderate" -> "normal"
    [] stressLevel = "low" -> "low"
    [] OTHER -> "normal"

sendAlertCachesFailures(cache, farmer, farm, analysis, sms, t) ==
  IF ~farmer.phoneOk
  THEN [success |-> FALSE, dispatched |-> 0, cache |-> cache]
  ELSE [success |-> sms = "ok", dispatched |-> 1,
        cache |-> stressCacheSet(cache, farm.id,
                    [present |-> TRUE, key |-> farm.id, timestamp |-> t,
                     stressLevel |-> analysis.stressLevel])]

\* sendAlert: no dispatch when the phone number does not format; the cache
\* entry is set under farm._id only when the gateway reports success.
\* sms is what the gateway does with the request ("ok" or "fail").
sendAlert(cache, farmer, farm, analysis, sms, t) ==
  IF ~farmer.phoneOk
  THEN [success |-> FALSE, dispatched |-> 0, cache |-> cache]
  ELSE IF sms = "ok"
  THEN [success |-> TRUE, dispatched |-> 1,
        cache |-> stressCacheSet(cache, farm.id,
                    [present |-> TRUE, key |-> farm.id, timestamp |-> t,
                     stressLevel |-> analysis.stressLevel])]
  ELSE [success |-> FALSE, dispatched |-> 1, cache |-> cache]

\* an argument the caller did not pass
Undefined ==
  [defined |-> FALSE, phoneOk |-> FALSE, id |-> StringKey("none"),
   user |-> "none"]

\* the users, and the user a farm's owner field refers to
Users == {"u1", "u2"}
OwnerOf(f) == IF f = "f1" THEN "u1" ELSE "u2"

\* the enums of the Alert schema
AlertStressLevels == {"healthy", "low", "moderate", "high", "severe"}
AlertUrgencies == {"low", "medium", "high", "critical"}

\* storeAlertRecord(farmId, analysis, alertResult, farm, farmer): builds the
\* Alert from farmer._id, farmer.phoneNumber, farmer.fullName and farm.name
\* and saves it; a TypeError on an undefined farmer or farm and a validation
\* error of save() are caught and nothing is stored.
storeAlertRecord(records, f, analysis, alertResult, farm, farmer, t) ==
  IF ~farmer.defined \/ ~farm.defined THEN records
  ELSE IF analysis.stressLevel \notin AlertStressLevels
          \/ getUrgencyLevel(analysis.stressLevel) \notin AlertUrgencies
  THEN records
  ELSE Append(records,
         [id |-> Len(records) + 1, farmId |-> f, userId |-> farmer.user,
          stressLevel |-> analysis.stressLevel,
          confidence |-> analysis.confidence,
          status |-> IF alertResult.success THEN "sent" ELSE "failed",
          urgency |-> getUrgencyLevel(analysis.stressLevel),
          acknowledged |-> FALSE, acknowledgedAt |-> 0 - 1,
          actionTaken |-> "", createdAt |-> t])

\* the calendar day of a time
DayOf(t) == t \div 24

\* NDVIData.find({ farm: farmId }).sort({ date: -1 }).limit(30).  The
\* documents of a farm are held in the order of the { farm: 1, date: -1 }
\* index, so the query result is their first 30.
findNDVIData(f) ==
  IF Len(ndviStore[f]) <= QueryLimit THEN ndviStore[f]
  ELSE SubSeq(ndviStore[f], 1, QueryLimit)

NdviOf(docs) == [i \in 1..Len(docs) |-> docs[i].ndvi]

\* how many documents of a query result were written as forecast points
ForecastPoints(docs) == Cardinality({i \in 1..Len(docs) : docs[i].forecast})

\* storeAnalysisResults.  Farm has no lastNDVIAnalysis path, so the strict
\* schema drops that update; each forecast day is upserted into NDVIData
\* under { farm, date } with the predicted value as ndvi.  The forecast
\* dates are the days after today, later than every stored observation.
storeAnalysisResults(docs, forecast, t) ==
  LET n == Len(forecast.forecast)
      today == DayOf(t)
      NotUpserted(d) == d.date <= today \/ d.date > today + n
  IN  [i \in 1..n |->
         [date |-> DayOf(t) + forecast.forecast[n + 1 - i].day,
          ndvi |-> forecast.forecast[n + 1 - i].predictedNDVI,
          forecast |-> TRUE]]
      \o SelectSeq(docs, NotUpserted)

InsufficientDataOffByOne(ndviData) == Len(ndviData) < 2

\* ndviData.length < 3
InsufficientData(ndviData) == Len(ndviData) < 3

NoAlert == [at |-> 0 - 1, stressLevel |-> "none", via |-> "none"]

NoResult ==
  [op |-> "none", via |-> "none", farm |-> "none", outcome |-> "none",
   error |-> "",
   analysis |-> NoAnalysis, alertSent |-> FALSE, dispatched |-> 0,
   recorded |-> 0, prevAlert |-> NoAlert, mostRecent |-> 0,
   statusNdvi |-> 0, samples |-> 0, at |-> 0,
   totalFarms |-> 0, analyzed |-> 0, snapshot |-> <<>>, batch |-> <<>>,
   alertId |-> 0, user |-> "none", actionTaken |-> "", status |-> 0,
   forecastSamples |-> 0]

\* no analyzeAllFarms call is running
BulkIdle ==
  [phase |-> "idle", via |-> "none", caller |-> "none", snapshot |-> <<>>,
   queue |-> <<>>, results |-> <<>>, cache |-> <<>>]

suppressedReturnRecording(cache, stored, records, answer, analysis, ndvi) ==
  [cache |-> cache, docs |-> stored,
   records |-> Append(records,
                 [id |-> Len(records) + 1, farmId |-> answer.farm,
                  userId |-> "none", stressLevel |-> analysis.stressLevel,
                  confidence |-> analysis.confidence, status |-> "pending",
                  urgency |-> "low", acknowledged |-> FALSE,
                  acknowledgedAt |-> 0 - 1, actionTaken |-> "",
                  createdAt |-> answer.at]),
   sent |-> {},
   answer |-> [answer EXCEPT !.outcome = "suppressed",
                 !.analysis = analysis,
                 !.recorded = 1,
                 !.mostRecent = ndvi[1]]]

\* the return of analyzeFarmAndAlert when shouldSendAlert returned false:
\* { success: true, analysis, forecast, alertSent: false, reason }
suppressedReturn(cache, stored, records, answer, analysis, ndvi) ==
  [cache |-> cache, docs |-> stored, records |-> records, sent |-> {},
   answer |-> [answer EXCEPT !.outcome = "suppressed",
                 !.analysis = analysis,
                 !.mostRecent = ndvi[1]]]

\* analyzeFarmAndAlert(farmId) on a service whose cache is cache.  key is
\* the farmId argument as a Map key, reply what the LLM does, sms what the
\* gateway does, z the forecast noise.  storeAlertRecord is called with
\* (farmId, analysis, alertResult) only, so its farm and farmer parameters
\* are undefined.  The result carries the new cache, NDVIData documents and
\* Alert collection next to the answer.
analyzeFarmAndAlert(f, key, cache, reply, sms, z) ==
  LET ndviData == findNDVIData(f)
      ndvi == NdviOf(ndviData)
      farm == [defined |-> TRUE, phoneOk |-> FALSE,
               id |-> ObjectIdKey(f, Len(cache) + 1)]
      farmOwner == [defined |-> TRUE, phoneOk |-> ownerDoc[f].phoneOk,
                    id |-> StringKey("owner"), user |-> OwnerOf(f)]
      analysis == detectCropStress(ndvi, reply)
      forecast == generateStressForecast(ndvi, AlertForecastDays,
                                         [i \in 1..AlertForecastDays |-> z])
      stored == storeAnalysisResults(ndviStore[f], forecast, now)
      alertResult == sendAlert(cache, farmOwner, farm, analysis, sms, now)
      records == storeAlertRecord(alertRecords, f, analysis, alertResult,
                                  Undefined, Undefined, now)
      answer == [NoResult EXCEPT !.op = "analyze", !.farm = f,
                                 !.prevAlert = lastAlerted[f],
                                 !.samples = Len(ndviData),
                                 !.forecastSamples = ForecastPoints(ndviData),
                                 !.at = now]
      unchanged == [cache |-> cache, docs |-> ndviStore[f],
                    records |-> alertRecords, sent |-> {}]
  IN  IF farmDoc[f] # "active"
      THEN unchanged @@
           [answer |-> [answer EXCEPT !.outcome = "failed",
                          !.error = "Farm not found or inactive"]]
      ELSE IF ownerDoc[f].state # "active"
      THEN unchanged @@
           [answer |-> [answer EXCEPT !.outcome = "failed",
                          !.error = "Farm owner not found or inactive"]]
      ELSE IF InsufficientData(ndviData)
      THEN unchanged @@
           [answer |-> [answer EXCEPT !.outcome = "failed",
                          !.error = "Insufficient NDVI data for analysis"]]
      ELSE IF shouldSendAlert(cache, key, analysis, now)
      THEN [cache |-> alertResult.cache, docs |-> stored, records |-> records,
            sent |-> IF alertResult.dispatched = 1
                     THEN {[farm |-> f, stressLevel |-> analysis.stressLevel,
                            at |-> now]}
                     ELSE {},
            answer |-> [answer EXCEPT !.outcome = "alerted",
                          !.analysis = analysis,
                          !.alertSent = alertResult.success,
                          !.dispatched = alertResult.dispatched,
                          !.recorded = Len(records) - Len(alertRecords),
                          !.mostRecent = ndvi[1]]]
      ELSE suppressedReturn(cache, stored, alertRecords, answer, analysis, ndvi)

(***************************************************************************)
(* The server: initial database and the request handlers.                  *)
(***************************************************************************)

\* recorded observations of a farm, most recent first
Observations ==
  {<<25, 25>>, <<25, 25, 25>>, <<35, 35, 35>>, <<15, 45, 60>>, <<70, 60, 50>>}

GoodOwner == [state |-> "active", phoneOk |-> TRUE]

\* a farm as the database holds it at start: a farm with an active owner and
\* any of the observation histories, or one thing wrong with it
Profiles ==
  [doc : {"active"}, owner : {GoodOwner}, obs : Observations]
  \cup [doc : {"none"}, owner : {GoodOwner}, obs : {<<>>}]
  \cup [doc : {"inactive"}, owner : {GoodOwner}, obs : {<<25, 25, 25>>}]
  \cup [doc : {"active"},
        owner : {[state |-> "missing", phoneOk |-> FALSE],
                 [state |-> "inactive", phoneOk |-> TRUE],
                 [state |-> "active", phoneOk |-> FALSE]},
        obs : {<<25, 25, 25>>}]

\* the observation documents of a history: the i-th most recent one is
\* dated i days before the server started
ObservationDocs(obs) ==
  [i \in 1..Len(obs) |-> [date |-> 0 - i, ndvi |-> obs[i], forecast |-> FALSE]]

PureIdle ==
  /\ pin = <<>>
  /\ pout = NoAnalysis
  /\ pstep = "idle"
  /\ horizon = 0
  /\ fnoise = <<>>
  /\ fout = NoForecast
  /\ preply = NoReply

\* the database and the service objects when the server starts on a
\* database that holds the Alert documents alerts
StartedWith(profile, alerts) ==
  /\ PureIdle
  /\ fpBelow \in BOOLEAN
  /\ now = 0
  /\ jitter \in Noise
  /\ farmDoc = [f \in FarmIds |-> profile[f].doc]
  /\ ownerDoc = [f \in FarmIds |-> profile[f].owner]
  /\ ndviStore = [f \in FarmIds |-> ObservationDocs(profile[f].obs)]
  /\ alertRecords = alerts
  /\ stressCache = <<>>
  /\ outbox = {}
  /\ lastAlerted = [f \in FarmIds |-> NoAlert]
  /\ calls = 0
  /\ bulk = BulkIdle
  /\ videoProgress = <<>>
  /\ last = NoResult

\* the server started on a database without Alert documents
Started(profile) == StartedWith(profile, <<>>)

\* a deployment without an LLM API key: every analysis is rule-based
Init ==
  /\ llmKey = FALSE
  /\ \E profile \in [FarmIds -> Profiles] :
       /\ profile["f2"].obs \in {<<>>, <<35, 35, 35>>}
       /\ profile["f2"].owner = GoodOwner
       /\ Started(profile)

\* a deployment with an LLM API key: one farm under high stress with an
\* active owner, and one farm id without a document
InitLLM ==
  /\ llmKey = TRUE
  /\ \E profile \in [FarmIds -> Profiles] :
       /\ profile["f1"] = [doc |-> "active", owner |-> GoodOwner,
                           obs |-> <<25, 25, 25>>]
       /\ profile["f2"].doc = "none"
       /\ Started(profile)

Replies == IF llmKey THEN LLMReplies ELSE {NoReply}

\* res.json(...) without res.status(...): the answer goes out with HTTP
\* status 200
resJson(answer) == [answer EXCEPT !.status = 200]

\* res.status(code).json(...)
resStatus(answer, code) == [answer EXCEPT !.status = code]

\* the state after a call of analyzeFarmAndAlert that returned r to the
\* entry point via
Analyzed(f, r, via) ==
  /\ ndviStore' = [ndviStore EXCEPT ![f] = r.docs]
  /\ alertRecords' = r.records
  /\ outbox' = outbox \cup r.sent
  /\ lastAlerted' =
       IF r.answer.outcome = "alerted" /\ r.answer.alertSent
       THEN [lastAlerted EXCEPT
               ![f] = [at |-> now, stressLevel |-> r.answer.analysis.stressLevel,
                       via |-> via]]
       ELSE lastAlerted
  /\ calls' = calls + 1
  /\ last' = IF via \in {"alerts", "satellite"}
             THEN resJson([r.answer EXCEPT !.via = via])
             ELSE [r.answer EXCEPT !.via = via]

\* POST /api/alerts/analyze/:farmId, on the router's one AlertService
AnalyzeRequest(f, reply, sms) ==
  /\ calls < MaxCalls
  /\ \E r \in {analyzeFarmAndAlert(f, StringKey(f), stressCache, reply, sms, jitter)} :
       /\ Analyzed(f, r, "alerts")
       /\ stressCache' = r.cache
  /\ fpBelow' \in BOOLEAN
  /\ UNCHANGED <<pureVars, videoProgress, now, farmDoc, ownerDoc, llmKey, jitter, bulk>>

\* POST /api/satellite/analyze-stress/:farmId, on a new AlertService()
AnalyzeStressRequest(f, reply, sms) ==
  /\ calls < MaxCalls
  /\ \E r \in {analyzeFarmAndAlert(f, StringKey(f), <<>>, reply, sms, jitter)} :
       Analyzed(f, r, "satellite")
  /\ fpBelow' \in BOOLEAN
  /\ UNCHANGED <<pureVars, videoProgress, now, farmDoc, ownerDoc, llmKey, jitter, stressCache,
                 bulk>>

\* GET /api/satellite/stress-forecast/:farmId
StressForecastRequest(f) ==
  /\ LET ndviData == findNDVIData(f)
         ndvi == NdviOf(ndviData)
         answer == [NoResult EXCEPT !.op = "stress-forecast",
                                    !.via = "satellite", !.farm = f,
                                    !.samples = Len(ndviData),
                                 !.forecastSamples = ForecastPoints(ndviData),
                                 !.at = now]
     IN  last' =
           IF InsufficientData(ndviData)
           THEN resStatus([answer EXCEPT !.outcome = "failed",
                             !.error = "Insufficient NDVI data for forecasting"],
                          400)
           ELSE resJson([answer EXCEPT !.outcome = "ok",
                           !.analysis = analyzeWithRules(ndvi),
                           !.mostRecent = ndvi[1],
                           !.statusNdvi = ndviData[1].ndvi])
  /\ fpBelow' \in BOOLEAN
  /\ UNCHANGED <<pureVars, videoProgress, now, farmDoc, ownerDoc, llmKey, jitter, ndviStore,
                 alertRecords, stressCache, outbox, lastAlerted, calls, bulk>>

\* the orders in which Farm.find can return the farms
FarmOrders == {<<"f1", "f2">>, <<"f2", "f1">>}

IsActiveFarm(f) == farmDoc[f] = "active"

remainingFarmsAbortOnFailure(queue, answer) ==
  IF answer.outcome = "failed" THEN <<>> ELSE Tail(queue)

\* for (const farm of farms): the farms left after the one just analysed,
\* whatever its result was
remainingFarms(queue, answer) == Tail(queue)

\* the role of the user who sends a request
Callers == {"admin", "farmer"}

\* POST /api/alerts/analyze-all (behind the auth middleware, on the router's
\* AlertService) answers 403 unless req.user.role is admin;
\* POST /api/satellite/analyze-all-farms (no middleware, a new AlertService)
\* checks nothing.  Then analyzeAllFarms loads the active farms.
AnalyzeAllStart(via, order, caller) ==
  /\ bulk.phase = "idle"
  /\ calls < MaxCalls
  /\ IF via = "alerts" /\ caller # "admin"
     THEN /\ last' = resStatus([NoResult EXCEPT !.op = "analyze-all",
                                                !.via = via, !.at = now,
                                                !.outcome = "rejected",
                                                !.error = "Admin access required"],
                               403)
          /\ bulk' = bulk
     ELSE /\ bulk' = [phase |-> "running", via |-> via, caller |-> caller,
                      snapshot |-> SelectSeq(order, IsActiveFarm),
                      queue |-> SelectSeq(order, IsActiveFarm),
                      results |-> <<>>, cache |-> <<>>]
          /\ last' = last
  /\ UNCHANGED <<pureVars, videoProgress, fpBelow, now, farmDoc, ownerDoc, llmKey, jitter,
                 ndviStore, alertRecords, stressCache, outbox, lastAlerted,
                 calls>>

\* one iteration of the loop of analyzeAllFarms: analyzeFarmAndAlert on
\* farm._id of the next farm of the list, then results.push(...)
AnalyzeAllStep(reply, sms) ==
  /\ bulk.phase = "running"
  /\ bulk.queue # <<>>
  /\ calls < MaxCalls
  /\ LET f == Head(bulk.queue)
         cache == IF bulk.via = "alerts" THEN stressCache ELSE bulk.cache
     IN  \E r \in {analyzeFarmAndAlert(f, ObjectIdKey(f, 0), cache, reply, sms,
                                        jitter)} :
           /\ Analyzed(f, r, IF bulk.via = "alerts" THEN "bulk-alerts"
                             ELSE "bulk-satellite")
           /\ stressCache' = IF bulk.via = "alerts" THEN r.cache
                             ELSE stressCache
           /\ bulk' = [bulk EXCEPT
                         !.queue = remainingFarms(bulk.queue, r.answer),
                         !.results = Append(bulk.results,
                                       [farm |-> f,
                                        outcome |-> r.answer.outcome]),
                         !.cache = IF bulk.via = "alerts" THEN bulk.cache
                                   ELSE r.cache]
  /\ fpBelow' \in BOOLEAN
  /\ UNCHANGED <<pureVars, videoProgress, now, farmDoc, ownerDoc, llmKey, jitter>>

\* the loop of analyzeAllFarms is over: the summary is returned
AnalyzeAllFinish ==
  /\ bulk.phase = "running"
  /\ bulk.queue = <<>>
  /\ last' = resJson([NoResult EXCEPT !.op = "analyze-all", !.via = bulk.via,
                                      !.outcome = "ok", !.at = now,
                                      !.totalFarms = Len(bulk.snapshot),
                                      !.analyzed = Len(bulk.results),
                                      !.snapshot = bulk.snapshot,
                                      !.batch = bulk.results])
  /\ bulk' = BulkIdle
  /\ UNCHANGED <<pureVars, videoProgress, fpBelow, now, farmDoc, ownerDoc, llmKey, jitter,
                 ndviStore, alertRecords, stressCache, outbox, lastAlerted,
                 calls>>

\* time passes
Tick ==
  /\ now + HalfDay <= MaxTime
  /\ now' = now + HalfDay
  /\ UNCHANGED <<pureVars, videoProgress, fpBelow, farmDoc, ownerDoc, llmKey, jitter, ndviStore,
                 alertRecords, stressCache, outbox, lastAlerted, calls, bulk,
                 last>>

Next ==
  \/ \E f \in FarmIds, reply \in Replies, sms \in {"ok", "fail"} :
       AnalyzeRequest(f, reply, sms)
  \/ \E f \in FarmIds, reply \in Replies, sms \in {"ok", "fail"} :
       AnalyzeStressRequest(f, reply, sms)
  \/ \E f \in FarmIds : StressForecastRequest(f)
  \/ Tick

Spec == Init /\ [][Next]_vars

\* Alert documents of a database the server is started on: one alert of
\* each farm's owner, the second one acknowledged before
SeededAlerts ==
  <<[id |-> 1, farmId |-> "f1", userId |-> "u1", stressLevel |-> "high",
     confidence |-> 85, status |-> "sent", urgency |-> "high",
     acknowledged |-> FALSE, acknowledgedAt |-> 0 - 1, actionTaken |-> "",
     createdAt |-> 0 - 1],
    [id |-> 2, farmId |-> "f2", userId |-> "u2", stressLevel |-> "moderate",
     confidence |-> 75, status |-> "failed", urgency |-> "medium",
     acknowledged |-> TRUE, acknowledgedAt |-> 0 - 1,
     actionTaken |-> "irrigated", createdAt |-> 0 - 2]>>

ActionsTaken == {"irrigated", "sprayed"}

acknowledgeUpdateMarksDelivered(alert, t, actionTaken) ==
  [alert EXCEPT !.acknowledged = TRUE, !.acknowledgedAt = t,
                !.actionTaken = actionTaken, !.status = "delivered"]

\* the update of Alert.findOneAndUpdate in the acknowledge route:
\* { acknowledged: true, acknowledgedAt: new Date(), actionTaken }
acknowledgeUpdate(alert, t, actionTaken) ==
  [alert EXCEPT !.acknowledged = TRUE, !.acknowledgedAt = t,
                !.actionTaken = actionTaken]

\* PUT /api/alerts/:alertId/acknowledge by the authenticated user: the
\* first document matching { _id: alertId, userId: req.user.id } is updated,
\* and the answer is 404 when there is none
Acknowledge(alertId, user, actionTaken) ==
  /\ calls < MaxCalls
  /\ calls' = calls + 1
  /\ LET Matches(i) == /\ alertRecords[i].id = alertId
                       /\ alertRecords[i].userId = user
         found == {i \in 1..Len(alertRecords) : Matches(i)}
         answer == [NoResult EXCEPT !.op = "acknowledge", !.via = "alerts",
                                    !.alertId = alertId, !.user = user,
                                    !.actionTaken = actionTaken, !.at = now]
     IN  IF found = {}
         THEN /\ alertRecords' = alertRecords
              /\ last' = resStatus([answer EXCEPT !.outcome = "not-found"], 404)
         ELSE /\ alertRecords' =
                   [i \in 1..Len(alertRecords) |->
                      IF i \in found
                      THEN acknowledgeUpdate(alertRecords[i], now, actionTaken)
                      ELSE alertRecords[i]]
              /\ last' = resJson([answer EXCEPT !.outcome = "acknowledged"])
  /\ UNCHANGED <<pureVars, videoProgress, fpBelow, now, farmDoc, ownerDoc, llmKey, jitter,
                 ndviStore, stressCache, outbox, lastAlerted, bulk>>

\* a deployment without an LLM API key whose database holds Alert documents
InitAck ==
  /\ llmKey = FALSE
  /\ \E profile \in [FarmIds -> Profiles] :
       /\ profile["f1"].doc = "active"
       /\ profile["f1"].owner = GoodOwner
       /\ profile["f1"].obs \in {<<25, 25, 25>>, <<70, 60, 50>>}
       /\ profile["f2"].doc = "none"
       /\ StartedWith(profile, SeededAlerts)

\* the requests of Next and the acknowledge requests
NextAck ==
  \/ Next
  \/ \E alertId \in 1..(Len(alertRecords) + 1), user \in Users,
        actionTaken \in ActionsTaken :
       Acknowledge(alertId, user, actionTaken)

SpecAck == InitAck /\ [][NextAck]_vars

SpecLLM == InitLLM /\ [][Next]_vars

VideoIds == {"v1", "v2"}

\* the progress values of a request body: percentages, and a value past the
\* end that the update stores as it is (no validators run on an update)
ProgressValues == {0, 50, 100, 150}

\* videoProgressSchema.pre('save'): isCompleted becomes true when progress
\* is 100 or more
preSave(doc) ==
  IF doc.progress >= 100 THEN [doc EXCEPT !.isCompleted = TRUE] ELSE doc

\* VideoProgress.findOneAndUpdate({ user, videoId }, { ..., progress,
\* lastWatchedAt }, { upsert: true, new: true }): the matching document gets
\* the fields of the update and keeps its other fields; without a match a
\* document is inserted with the schema defaults (isCompleted false).  An
\* update is no save: the pre('save') hook does not run.
findOneAndUpdateProgress(docs, user, videoId, progress, t) ==
  LET Matches(i) == docs[i].user = user /\ docs[i].videoId = videoId
  IN  IF \E i \in 1..Len(docs) : Matches(i)
      THEN LET k == CHOOSE i \in 1..Len(docs) : Matches(i)
           IN  [docs EXCEPT ![k] = [@ EXCEPT !.progress = progress,
                                            !.lastWatchedAt = t]]
      ELSE Append(docs, [user |-> user, videoId |-> videoId,
                         progress |-> progress, isCompleted |-> FALSE,
                         lastWatchedAt |-> t])

\* POST /videos/progress: 400 when userId, videoId or progress is missing,
\* else the upsert, answered with the document
TrackProgress(user, videoId, progress, hasProgress) ==
  /\ calls < MaxCalls
  /\ calls' = calls + 1
  /\ LET answer == [NoResult EXCEPT !.op = "video-progress", !.user = user,
                                    !.at = now]
     IN  IF user = "" \/ videoId = "" \/ ~hasProgress
         THEN /\ videoProgress' = videoProgress
              /\ last' = resStatus([answer EXCEPT !.outcome = "failed",
                                      !.error = "userId, videoId, and progress are required"],
                                   400)
         ELSE /\ videoProgress' =
                   findOneAndUpdateProgress(videoProgress, user, videoId,
                                            progress, now)
              /\ last' = resJson([answer EXCEPT !.outcome = "ok"])
  /\ UNCHANGED <<pureVars, fpBelow, now, farmDoc, ownerDoc, llmKey, jitter,
                 ndviStore, alertRecords, stressCache, outbox, lastAlerted,
                 bulk>>

\* a server whose database holds no farm, with the video requests
InitVideo ==
  /\ llmKey = FALSE
  /\ \E profile \in [FarmIds -> Profiles] :
       /\ \A f \in FarmIds : profile[f].doc = "none"
       /\ Started(profile)
  /\ jitter = 0
  /\ fpBelow = FALSE

NextVideo ==
  \/ \E user \in Users \cup {""}, videoId \in VideoIds \cup {""},
        progress \in ProgressValues, hasProgress \in BOOLEAN :
       TrackProgress(user, videoId, progress, hasProgress)
  \/ Tick

SpecVideo == InitVideo /\ [][NextVideo]_vars

\* the bulk endpoints, with single-farm requests to the alerts router (whose
\* service the admin bulk endpoint shares) arriving between the farms of a
\* batch
NextBulk ==
  \/ \E via \in {"alerts", "satellite"}, order \in FarmOrders,
        caller \in Callers :
       AnalyzeAllStart(via, order, caller)
  \/ \E reply \in Replies, sms \in {"ok", "fail"} : AnalyzeAllStep(reply, sms)
  \/ AnalyzeAllFinish
  \/ \E f \in FarmIds, reply \in Replies, sms \in {"ok", "fail"} :
       AnalyzeRequest(f, reply, sms)
  \/ Tick

\* the deployment of Init, with the forecast noise of the batch at 0
InitBulk == Init /\ jitter = 0

SpecBulk == InitBulk /\ [][NextBulk]_vars

(***************************************************************************)
(* The classifier applied to bounded sample sequences (date descending).   *)
(***************************************************************************)
NdviGrid == {10, 20, 30, 40, 45, 50, 70}
CoarseGrid == {20, 45, 70}

SeqsUpTo(S, n) == UNION {[1..k -> S] : k \in 1..n}

\* sample sequences whose last element is 0.38 and whose slope is -0.08
ScenarioInputs == {<<46, 38>>, <<54, 46, 38>>}

RuleInputs ==
  SeqsUpTo(NdviGrid, MaxShort) \cup SeqsUpTo(CoarseGrid, MaxLong)
    \cup ScenarioInputs

\* the server is not running while a pure function is exercised
ServiceIdle ==
  /\ now = 0
  /\ jitter = 0
  /\ llmKey = FALSE
  /\ farmDoc = [f \in FarmIds |-> "none"]
  /\ ownerDoc = [f \in FarmIds |-> GoodOwner]
  /\ ndviStore = [f \in FarmIds |-> <<>>]
  /\ alertRecords = <<>>
  /\ stressCache = <<>>
  /\ outbox = {}
  /\ lastAlerted = [f \in FarmIds |-> NoAlert]
  /\ calls = 0
  /\ bulk = BulkIdle
  /\ videoProgress = <<>>
  /\ last = NoResult

RulesInit ==
  /\ pin \in RuleInputs
  /\ fpBelow \in BOOLEAN
  /\ pout = NoAnalysis
  /\ pstep = "input"
  /\ horizon = 0
  /\ fnoise = <<>>
  /\ fout = NoForecast
  /\ preply = NoReply
  /\ ServiceIdle

RunRules ==
  /\ pstep = "input"
  /\ pout' = analyzeWithRules(pin)
  /\ pstep' = "done"
  /\ UNCHANGED <<pin, horizon, fnoise, fout, preply, fpBelow, serviceVars>>

RulesNext == RunRules

SpecRules == RulesInit /\ [][RulesNext]_vars

(***************************************************************************)
(* The forecast estimator applied to bounded sample sequences, horizons    *)
(* and random variations.                                                  *)
(***************************************************************************)
\* NDVI values in [-1, 1]
ForecastGrid == {0 - 50, 20, 60, 100}

ForecastInputs == {<<>>} \cup SeqsUpTo(ForecastGrid, MaxShort)

Horizons == 0..MaxDays

ForecastInit ==
  /\ pin \in ForecastInputs
  /\ preply = NoReply
  /\ horizon \in Horizons
  /\ fnoise \in [1..horizon -> Noise]
  /\ fpBelow = FALSE
  /\ pout = NoAnalysis
  /\ fout = NoForecast
  /\ pstep = "input"
  /\ ServiceIdle

RunForecast ==
  /\ pstep = "input"
  /\ fout' = generateStressForecast(pin, horizon, fnoise)
  /\ pstep' = "done"
  /\ UNCHANGED <<pin, pout, horizon, fnoise, preply, fpBelow, serviceVars>>

ForecastNext == RunForecast

SpecForecast == ForecastInit /\ [][ForecastNext]_vars

(***************************************************************************)
(* The detector applied to bounded non-empty sample sequences and to every *)
(* behaviour of the LLM call, with and without an API key.                 *)
(***************************************************************************)
DetectInputs == SeqsUpTo(NdviGrid, MaxShort)

DetectInit ==
  /\ pin \in DetectInputs
  /\ preply \in LLMReplies \cup {NoReply}
  /\ fpBelow \in BOOLEAN
  /\ pout = NoAnalysis
  /\ pstep = "input"
  /\ horizon = 0
  /\ fnoise = <<>>
  /\ fout = NoForecast
  /\ ServiceIdle

RunDetect ==
  /\ pstep = "input"
  /\ pout' = detectCropStress(pin, preply)
  /\ pstep' = "done"
  /\ UNCHANGED <<pin, horizon, fnoise, fout, preply, fpBelow, serviceVars>>

DetectNext == RunDetect

SpecDetect == DetectInit /\ [][DetectNext]_vars

(***************************************************************************)
(* Claims about the rule-based classifier (checked under SpecRules).       *)
(***************************************************************************)

\* the five-way threshold table: <0.2 severe, <0.3 high, <0.4 moderate,
\* <0.5 low, else healthy
ThresholdLevel(v) ==
  IF v < 20 THEN "severe"
  ELSE IF v < 30 THEN "high"
  ELSE IF v < 40 THEN "moderate"
  ELSE IF v < 50 THEN "low"
  ELSE "healthy"

\* C8: with no trend escalation, the rule-based classifier maps the driving
\* NDVI value v to severe (v < 0.2), high (< 0.3), moderate (< 0.4),
\* low (< 0.5) and healthy otherwise.
C8_FixedThresholds ==
  (pstep = "done" /\ ~Declining(pout.trend))
    => pout.stressLevel = ThresholdLevel(pout.current)

Reverse(s) == [i \in 1..Len(s) |-> s[Len(s) + 1 - i]]

\* least-squares slope over the five most recent samples, oldest first
ChronologicalSlope(ndvi) == calculateLinearRegression(Reverse(FirstFive(ndvi)))

SameSlope(a, b) == a.num * b.den = b.num * a.den

\* C9: for samples sorted by date descending, the trend slope is the
\* least-squares slope over the five most recent samples taken in
\* chronological order (a slope below -0.05 means NDVI is falling over time).
C9_TrendChronological ==
  (pstep = "done" /\ Len(pin) >= 2)
    => SameSlope(pout.trend, ChronologicalSlope(pin))

\* one severity step up in healthy < low < moderate < high < severe
StepUp(level) ==
  CASE level = "healthy" -> "low"
    [] level = "low" -> "moderate"
    [] level = "moderate" -> "high"
    [] level = "high" -> "severe"
    [] OTHER -> "severe"

\* C10: a trend slope below -0.05 returns the level exactly one severity
\* step above the base level (severe stays severe); a slope of -0.05 or more
\* returns the base level unchanged.
C10_OneStepEscalation ==
  pstep = "done" =>
    LET base == baseClassification(pout.current).stressLevel
    IN  pout.stressLevel = IF Declining(pout.trend) THEN StepUp(base) ELSE base

\* a declining trend escalated a level below severe
C10_Witness ==
  /\ pstep = "done"
  /\ Declining(pout.trend)
  /\ baseClassification(pout.current).stressLevel = "moderate"
  /\ pout.stressLevel = "high"

\* the classifier ran on a current NDVI of 0.38 with a trend slope of -0.08
Scenario038 ==
  /\ pstep = "done"
  /\ pout.current = 38
  /\ SameSlope(pout.trend, [num |-> 0 - 8, den |-> 1])

\* C11 as stated: for a latest sample with ndvi 0.38 and a trend slope of
\* -0.08 the base level is high and the returned level is severe.
C11_Scenario038HighToSevere ==
  Scenario038
    => (/\ baseClassification(pout.current).stressLevel = "high"
        /\ pout.stressLevel = "severe")

\* C11 amended: for a current NDVI of 0.38 and a trend slope of -0.08 the
\* base level is moderate and the returned level is high (one step up).
C11_Scenario038ModerateToHigh ==
  Scenario038
    => (/\ baseClassification(pout.current).stressLevel = "moderate"
        /\ pout.stressLevel = "high")

\* the scenario's input was classified
C11_Witness ==
  /\ Scenario038
  /\ Declining(pout.trend)
  /\ pin = <<46, 38>>

\* the samples of s, each raised by c: same slope, higher NDVI
Shift(s, c) == [i \in 1..Len(s) |-> s[i] + c]

Shifts == {5, 10, 20, 30}

\* C12: for a fixed trend slope and NDVI values v1 <= v2, the severity index
\* of the level returned for v1 is at least that of the level returned for
\* v2 (monotonic across the boundaries 0.2, 0.3, 0.4, 0.5).
C12_MonotonicInNDVI ==
  pstep = "done" =>
    \A c \in Shifts :
      LET higher == analyzeWithRules(Shift(pin, c))
      IN  /\ SameSlope(higher.trend, pout.trend)
          /\ higher.current = pout.current + c
          /\ indexOf(pout.stressLevel) >= indexOf(higher.stressLevel)

\* a severe result under a declining trend whose input, raised by 0.3, is
\* classified low: the two results lie on either side of three boundaries
C12_Witness ==
  /\ pstep = "done"
  /\ Len(pin) >= 2
  /\ Declining(pout.trend)
  /\ pout.stressLevel = "severe"
  /\ analyzeWithRules(Shift(pin, 30)).stressLevel = "low"

\* n*sum(x^2) - (sum x)^2 over x = 0..n-1 in closed form: n^2 (n^2 - 1) / 12
IndexSpread(n) == (n * n * (n * n - 1)) \div 12

\* C28: the slope calculateNDVITrend gives for numeric samples is defined:
\* it is 0 for fewer than 2 samples, and otherwise the regression runs over
\* the indices 0..n-1 of 2 to 5 samples, whose denominator is strictly
\* positive
C28_TrendIsDefined ==
  pstep = "done"
    => LET n == Min(Len(pin), 5)
       IN  /\ pout.trend.den > 0
           /\ Len(pin) < 2 => pout.trend.num = 0
           /\ Len(pin) >= 2 => (n \in 2..5 /\ pout.trend.den = IndexSpread(n))

C28_Witness ==
  /\ pstep = "done" /\ Len(pin) = MaxLong
  /\ pout.trend.den = 50 /\ pout.trend.num < 0
  /\ pout.stressLevel = "severe" /\ pout.current = 20

(***************************************************************************)
(* Claims about the detector (checked under SpecDetect).                   *)
(***************************************************************************)

\* C21: when the LLM call fails by error or timeout, detectCropStress does
\* not fail and returns the rule-based classification of the same samples.
C21_LLMFailureFallsBackToRules ==
  (pstep = "done" /\ preply.kind = "error")
    => (/\ pout.aiModel = "rule-based-fallback"
        /\ pout = analyzeWithRules(pin))

\* a failed LLM call on samples ending in 0.10 gave the rules' severe
C21_Witness ==
  /\ pstep = "done"
  /\ preply.kind = "error"
  /\ pin[Len(pin)] = 10
  /\ pout.stressLevel = "severe"
  /\ pout.confidence = 90

(***************************************************************************)
(* Claims about the forecast estimator (checked under SpecForecast).       *)
(***************************************************************************)

\* C16: generateStressForecast called with fewer than 3 samples returns an
\* empty forecast sequence with method tag insufficient_data, for every
\* horizon.
C16_TooFewSamplesEmptyForecast ==
  (pstep = "done" /\ Len(pin) < 3)
    => (fout.forecast = <<>> /\ fout.method = "insufficient_data")

\* a forecast over 2 samples and a horizon of 2 days came back empty
C16_Witness ==
  /\ pstep = "done"
  /\ Len(pin) = 2
  /\ horizon = 2
  /\ fout.method = "insufficient_data"

\* C17: with at least 3 samples and a horizon of horizonDays the forecast is
\* a sequence of exactly horizonDays points, the i-th for day i, in
\* increasing date order.
C17_OnePointPerDay ==
  (pstep = "done" /\ Len(pin) >= 3)
    => (/\ fout.method = "linear_regression"
        /\ Len(fout.forecast) = horizon
        /\ \A i \in 1..Len(fout.forecast) : fout.forecast[i].day = i)

\* a forecast over 3 samples with a horizon of 3 days
C17_Witness ==
  /\ pstep = "done"
  /\ Len(pin) = 3
  /\ horizon = 3
  /\ Len(fout.forecast) = 3

\* a / b < c / d for fractions with positive denominators
FracLess(x, y) == x.num * y.den < y.num * x.den

\* C18: with horizonDays >= 1 the confidence of day i equals
\* max(0.5, 0.9 - 0.4 * i / horizonDays), lies within [0, 1] and is strictly
\* decreasing in i over 1..horizonDays.
C18_ConfidenceDecays ==
  (pstep = "done" /\ Len(pin) >= 3 /\ horizon >= 1)
    => (/\ DOMAIN fout.forecast = 1..horizon
        /\ \A i \in 1..horizon :
             LET c == fout.forecast[i].confidence
             IN  /\ c.den > 0
                 /\ c.num * horizon =
                      (IF 90 * horizon - 40 * i > 50 * horizon
                       THEN 90 * horizon - 40 * i ELSE 50 * horizon) * c.den
                 /\ 0 <= c.num
                 /\ c.num <= 100 * c.den
        /\ \A i \in 1..(horizon - 1) :
             FracLess(fout.forecast[i + 1].confidence,
                      fout.forecast[i].confidence))

\* a three-day forecast whose last confidence is the floor 0.5
C18_Witness ==
  /\ pstep = "done"
  /\ horizon = 3
  /\ Len(fout.forecast) = 3
  /\ fout.forecast[3].confidence.num = 50 * fout.forecast[3].confidence.den
  /\ FracLess(fout.forecast[3].confidence, fout.forecast[2].confidence)

\* C19: every forecast point's predictedNDVI lies in [0, 1], for any last
\* NDVI in [-1, 1], any trend slope, any day index and any noise value.
C19_PredictedNDVIClamped ==
  pstep = "done" =>
    \A i \in 1..Len(fout.forecast) :
      /\ fout.forecast[i].predictedNDVI >= 0
      /\ fout.forecast[i].predictedNDVI <= 100

\* a falling series projected below 0 and clamped, with a negative variation
C19_Witness ==
  /\ pstep = "done"
  /\ pin = <<100, 60, 20>>
  /\ horizon >= 2
  /\ fnoise[2] < 0
  /\ fout.forecast[2].predictedNDVI = 0

(***************************************************************************)
(* Claims about the alert orchestrator (checked under Spec and SpecLLM).   *)
(***************************************************************************)

\* the last request was an analyzeFarmAndAlert call that got past its checks
Analysed ==
  last.op = "analyze" /\ last.outcome \in {"alerted", "suppressed"}

\* C1: an analyzeFarmAndAlert call that reaches Alerted makes exactly one
\* notification dispatch and persists exactly one Alert Record before it
\* returns.
C1_AlertedOneDispatchOneRecord ==
  (last.op = "analyze" /\ last.outcome = "alerted")
    => (last.dispatched = 1 /\ last.recorded = 1)

\* a is strictly more severe than b in healthy < low < moderate < high < severe
MoreSevere(a, b) ==
  /\ indexOf(a) >= 0
  /\ indexOf(b) >= 0
  /\ indexOf(a) > indexOf(b)

\* the last request analysed a farm less than 24 hours after an alert for it
InCooldown ==
  /\ Analysed
  /\ last.prevAlert # NoAlert
  /\ last.at - last.prevAlert.at < alertCooldown

\* C2: no two alerts for the same farm are produced less than 24 hours
\* apart unless the later analysis has a strictly higher stress severity
\* than the earlier alert (a repeat with unchanged stress is Suppressed).
C2_CooldownRespected ==
  (InCooldown /\ last.outcome = "alerted")
    => MoreSevere(last.analysis.stressLevel, last.prevAlert.stressLevel)

C4_NoAlertForHealthyOrLow ==
  /\ \A n \in outbox : n.stressLevel \notin {"healthy", "low"}
  /\ \A i \in 1..Len(alertRecords) :
       alertRecords[i].stressLevel \notin {"healthy", "low"}
  /\ (last.op = "analyze" /\ last.analysis.stressLevel \in {"healthy", "low"})
       => (last.outcome = "suppressed" /\ last.dispatched = 0
           /\ last.recorded = 0)

\* after a notification for another farm, a low-stress analysis with a
\* confidence of 0.8 was suppressed
C4_Witness ==
  /\ Analysed
  /\ last.analysis.stressLevel = "low"
  /\ last.analysis.confidence >= 70
  /\ last.outcome = "suppressed"
  /\ outbox # {}

\* C14: an analysis that ends Suppressed (shouldSendAlert returned false)
\* creates no Alert Record.
C14_SuppressedNoRecord ==
  [][(calls' = calls + 1 /\ last'.outcome = "suppressed")
       => alertRecords' = alertRecords]_vars

\* an analysis of three samples ended Suppressed with a healthy result
C14_Witness ==
  /\ last.op = "analyze"
  /\ last.outcome = "suppressed"
  /\ last.analysis.stressLevel = "healthy"
  /\ last.recorded = 0
  /\ last.samples = 3

\* C15: after an alert was sent for a farm through one analysis endpoint, a
\* repeat analysis of that farm with unchanged stress through another
\* endpoint within 24 hours is suppressed.
C15_CooldownSharedAcrossEndpoints ==
  (/\ InCooldown
   /\ last.via # last.prevAlert.via
   /\ last.analysis.stressLevel = last.prevAlert.stressLevel)
    => last.outcome = "suppressed"

FarmsOf(results) == [i \in 1..Len(results) |-> results[i].farm]

\* C20: analyzeAllFarms analyses every active farm exactly once, one after
\* another in the order of the list, a failure on one farm does not abort
\* the batch, and the summary reports analyzed = totalFarms.
C20_BulkAnalysesEveryFarmOnce ==
  /\ bulk.phase = "running"
       => FarmsOf(bulk.results) \o bulk.queue = bulk.snapshot
  /\ (last.op = "analyze-all" /\ last.outcome = "ok")
       => (/\ last.analyzed = last.totalFarms
           /\ FarmsOf(last.batch) = last.snapshot
           /\ {last.snapshot[i] : i \in 1..Len(last.snapshot)}
                = {f \in FarmIds : IsActiveFarm(f)}
           /\ Len(last.snapshot) = Cardinality({f \in FarmIds : IsActiveFarm(f)}))

\* a batch over two farms finished after the analysis of its first farm
\* had failed and the second farm had still been analysed
C20_Witness ==
  /\ last.op = "analyze-all"
  /\ last.totalFarms = 2
  /\ last.analyzed = 2
  /\ last.batch[1].outcome = "failed"
  /\ last.batch[2].outcome \in {"alerted", "suppressed"}

\* C5: analyzeFarmAndAlert reaches Alerted only if the stress level is
\* moderate, high or severe and the confidence is at least 0.7, for every
\* analysis result the detector can return.
C5_AlertedOnlyAboveLow ==
  (last.op = "analyze" /\ last.outcome = "alerted")
    => (/\ last.analysis.stressLevel \in {"moderate", "high", "severe"}
        /\ last.analysis.confidence >= 70)

\* C13: stress analysis of a non-empty sample sequence always yields a level
\* from {healthy, low, moderate, high, severe}, whichever path produced it.
C13_AlwaysFiveLevel ==
  Analysed =>
    last.analysis.stressLevel \in {"healthy", "low", "moderate", "high", "severe"}

IsObservation(d) == ~d.forecast

\* the reasons for which an analysis of farm f must fail
FailureReasons(f) ==
  (IF farmDoc[f] # "active" THEN {"Farm not found or inactive"} ELSE {})
  \cup (IF ownerDoc[f].state # "active"
        THEN {"Farm owner not found or inactive"} ELSE {})
  \cup (IF Len(SelectSeq(ndviStore[f], IsObservation)) < 3
        THEN {"Insufficient NDVI data for analysis"} ELSE {})

\* C6: if the farm is missing or inactive, its owner is missing or inactive,
\* or fewer than 3 NDVI samples exist, analyzeFarmAndAlert returns a failure
\* naming such a reason and has persisted nothing: no forecast points, no
\* Alert Record, no cooldown entry, and no notification was sent.
C6_FailFastPersistsNothing ==
  [][(calls' = calls + 1 /\ FailureReasons(last'.farm) # {})
       => (/\ last'.outcome = "failed"
           /\ last'.error \in FailureReasons(last'.farm)
           /\ UNCHANGED <<farmDoc, ndviStore, alertRecords, stressCache,
                          outbox, lastAlerted>>)]_vars

\* an analysis of a farm with exactly 2 samples failed for that reason
C6_Witness ==
  /\ last.op = "analyze"
  /\ last.samples = 2
  /\ last.outcome = "failed"
  /\ last.error = "Insufficient NDVI data for analysis"

\* C7: the most recent sample (the first element of the date-descending
\* sequence) is the one whose ndvi drives the classification, in
\* analyzeFarmAndAlert and in the stress-forecast endpoint, whose reported
\* current NDVI and stress level come from that same sample.
C7_MostRecentDrives ==
  (last.outcome \in {"alerted", "suppressed", "ok"})
    => (/\ last.analysis.current = last.mostRecent
        /\ (last.op = "stress-forecast"
              => last.statusNdvi = last.analysis.current))

(***************************************************************************)
(* Claims about the Alert documents.                                       *)
(***************************************************************************)
OnlyAcknowledgeFieldsChange(before, after) ==
  after = [before EXCEPT !.acknowledged = after.acknowledged,
                         !.acknowledgedAt = after.acknowledgedAt,
                         !.actionTaken = after.actionTaken]

\* C22: an Alert Record that exists is never deleted, and it changes only
\* by an acknowledge request for it, and then only in acknowledged,
\* acknowledgedAt and actionTaken
C22_AlertRecordsOnlyAcknowledged ==
  [][/\ Len(alertRecords') >= Len(alertRecords)
     /\ \A i \in 1..Len(alertRecords) :
          \/ alertRecords'[i] = alertRecords[i]
          \/ /\ last'.op = "acknowledge"
             /\ last'.alertId = alertRecords[i].id
             /\ OnlyAcknowledgeFieldsChange(alertRecords[i], alertRecords'[i])]_vars

C22_Witness ==
  /\ last.op = "analyze" /\ last.outcome = "alerted"
  /\ Len(alertRecords) = 2
  /\ alertRecords[1].acknowledged /\ alertRecords[1].actionTaken = "sprayed"
  /\ alertRecords[1].acknowledgedAt = 0 /\ now = HalfDay
  /\ alertRecords[1].status = "sent"
  /\ alertRecords[2] = SeededAlerts[2]


(***************************************************************************)
(* Claims about the HTTP answers.                                          *)
(***************************************************************************)
SingleFarmAnswer == last.op = "analyze" /\ last.via \in {"alerts", "satellite"}

FarmOrOwnerMissing(f) ==
  \/ farmDoc[f] = "none"
  \/ farmDoc[f] = "active" /\ ownerDoc[f].state = "missing"

\* C23: a single-farm analysis that fails because the farm or its owner does
\* not exist is answered with status 404, one that fails for fewer than 3
\* samples with status 400, and status 200 is given only to an analysis that
\* succeeded
C23_FailureStatusCodes ==
  SingleFarmAnswer =>
    /\ (last.outcome = "failed" /\ FarmOrOwnerMissing(last.farm))
         => last.status = 404
    /\ last.error = "Insufficient NDVI data for analysis" => last.status = 400
    /\ last.status = 200 => last.outcome # "failed"

(***************************************************************************)
(* Claims about the cooldown cache.                                        *)
(***************************************************************************)
\* C24: the key sendAlert writes a cooldown entry under (farm._id) and the
\* key shouldSendAlert looks up (the farmId string of a single-farm request,
\* or the _id of a farm listed by analyzeAllFarms) denote the same entry:
\* every entry written for a farm is found by both lookups
C24_CacheKeysAgree ==
  \A i \in 1..Len(stressCache) :
    LET f == stressCache[i].key.farm
    IN  /\ stressCacheGet(stressCache, StringKey(f)) = stressCache[i]
        /\ stressCacheGet(stressCache, ObjectIdKey(f, 0)) = stressCache[i]

\* a farm document and its owner's document, both loaded
Loaded(f) ==
  [defined |-> TRUE, phoneOk |-> ownerDoc[f].phoneOk, id |-> StringKey(f),
   user |-> OwnerOf(f)]

\* C27: the urgency getUrgencyLevel gives for the level of an analysis that
\* is alerted is one of low, medium, high, critical, so that the Alert
\* Record built from the analysis, the farm and the farmer passes validation
\* and is stored
C27_UrgencyInSchemaEnum ==
  (last.op = "analyze" /\ last.outcome = "alerted")
    => (/\ getUrgencyLevel(last.analysis.stressLevel) \in AlertUrgencies
        /\ Len(storeAlertRecord(<<>>, last.farm, last.analysis,
                                [success |-> last.alertSent],
                                Loaded(last.farm), Loaded(last.farm),
                                last.at)) = 1)

FailedAttempt(answer) ==
  answer.op = "analyze" /\ answer.outcome = "alerted" /\ ~answer.alertSent

NeedsAlert(analysis) ==
  analysis.stressLevel \notin {"healthy", "low"} /\ analysis.confidence >= 70

\* C25: a cooldown entry is written only by an analysis whose notification
\* was dispatched with success; an invalid phone number or a failed dispatch
\* leaves the cache as it was, and the next analysis of that farm that
\* calls for an alert is not suppressed but attempts the notification again
C25_CacheWrittenOnlyOnSuccess ==
  [][/\ stressCache' # stressCache
          => (last'.op = "analyze" /\ last'.outcome = "alerted"
              /\ last'.alertSent)
     /\ (/\ FailedAttempt(last)
         /\ calls' = calls + 1
         /\ last'.op = "analyze" /\ last'.farm = last.farm
         /\ NeedsAlert(last'.analysis))
          => (/\ last'.outcome = "alerted"
              /\ ownerDoc[last.farm].phoneOk => last'.dispatched = 1)]_vars

C25_Witness ==
  /\ calls = 2 /\ FailedAttempt(last) /\ last.via = "alerts"
  /\ last.dispatched = 1 /\ now = HalfDay
  /\ lastAlerted[last.farm] = NoAlert /\ stressCache = <<>>
  /\ outbox = {[farm |-> last.farm, stressLevel |-> "high", at |-> 0],
               [farm |-> last.farm, stressLevel |-> "high", at |-> HalfDay]}

(***************************************************************************)
(* Claims about the samples an analysis reads.                             *)
(***************************************************************************)
\* C26: the samples read by analyzeFarmAndAlert and by the stress-forecast
\* endpoint are recorded observations only: no forecast point written by
\* storeAnalysisResults is among the samples that are classified, used for
\* the trend or counted toward the 3-sample minimum
C26_SamplesAreObservations ==
  last.op \in {"analyze", "stress-forecast"} => last.forecastSamples = 0

(***************************************************************************)
(* Claims about who may start a bulk analysis.                             *)
(***************************************************************************)
\* C29: a bulk analysis of all farms runs only for an authenticated caller
\* whose role is admin: every endpoint that invokes analyzeAllFarms rejects
\* any other caller before a farm is analysed or an alert is sent
C29_BulkOnlyByAdmin ==
  /\ bulk.phase = "running" => bulk.caller = "admin"
  /\ last.via \in {"bulk-alerts", "bulk-satellite"} => bulk.caller = "admin"

(***************************************************************************)
(* Claims about the video progress records.                                *)
(***************************************************************************)
\* C30: after any sequence of progress updates every stored VideoProgress
\* record whose progress is 100 or more has isCompleted = true
C30_CompletedAtFullProgress ==
  \A i \in 1..Len(videoProgress) :
    videoProgress[i].progress >= 100 => videoProgress[i].isCompleted

====
